---- MODULE Spec2Model ----
(***************************************************************************)
(* Function reconstruction from derivatives (src/app.py).                  *)
(*                                                                         *)
(* The script is one straight-line pipeline: parse f'(x) and f''(x),       *)
(* integrate up with the constants C1 and C2, turn the initial conditions  *)
(* into equations, solve them for [C1, C2], substitute, build the numeric  *)
(* callables and the sample grid, parse the critical points, solve for the *)
(* inflection points, plot, and display the formulas.  Each section of the *)
(* script is one action; pc is the section about to run.                   *)
(*                                                                         *)
(* Text inputs are sequences of one-character strings.  A symbolic         *)
(* expression is a polynomial in x whose coefficients are linear forms     *)
(* over the symbols C1, C2 and r (a symbol declared real) with exact       *)
(* rational coefficients; the floats the script reads (a, b, c, d) are     *)
(* small integers in the model, so exact and floating arithmetic agree.    *)
(***************************************************************************)
EXTENDS Integers, Sequences, FiniteSets, TLC

\* Bounds of the model.
MaxPt == 1      \* the points a and c of the initial conditions range over 0..MaxPt
MaxVal == 2     \* the values b and d of the initial conditions range over 0..MaxVal
MaxDeg == 4     \* highest power of x an expression can hold

\* Program constants.
XMin == -5
XMax == 5
GridSize == 1000

(***************************************************************************)
(* Exact rationals <<n, d>>, d > 0, in lowest terms.                       *)
(***************************************************************************)
Abs(n) == IF n < 0 THEN -n ELSE n

RECURSIVE GCD(_, _)
GCD(a, b) == IF b = 0 THEN a ELSE GCD(b, a % b)

Norm(n, d) ==
  LET g == GCD(Abs(n), Abs(d))
      s == IF d < 0 THEN -1 ELSE 1
  IN <<(s * n) \div g, (s * d) \div g>>

RInt(n) == <<n, 1>>
RZero == RInt(0)
ROne == RInt(1)
RAdd(p, q) == Norm(p[1] * q[2] + q[1] * p[2], p[2] * q[2])
RMul(p, q) == Norm(p[1] * q[1], p[2] * q[2])
RNeg(p) == <<-p[1], p[2]>>
RSub(p, q) == RAdd(p, RNeg(q))
RDiv(p, q) == Norm(p[1] * q[2], p[2] * q[1])

RECURSIVE RPow(_, _)
RPow(p, n) == IF n = 0 THEN ROne ELSE RMul(p, RPow(p, n - 1))

(***************************************************************************)
(* Linear forms over the symbols, and polynomials in x over them.          *)
(***************************************************************************)
Symbols == {"C1", "C2", "r"}
Atoms == {"k"} \cup Symbols          \* "k" is the numeric part

LZero == [s \in Atoms |-> RZero]
LNum(q) == [s \in Atoms |-> IF s = "k" THEN q ELSE RZero]
LSym(sym) == [s \in Atoms |-> IF s = sym THEN ROne ELSE RZero]
LAdd(u, v) == [s \in Atoms |-> RAdd(u[s], v[s])]
LScale(q, u) == [s \in Atoms |-> RMul(q, u[s])]
LNeg(u) == LScale(RInt(-1), u)
LSub(u, v) == LAdd(u, LNeg(v))
LSyms(u) == {s \in Symbols : u[s] # RZero}
LIsNumber(u) == LSyms(u) = {}

EZero == [i \in 0..MaxDeg |-> LZero]
Mono(n, u) == [i \in 0..MaxDeg |-> IF i = n THEN u ELSE LZero]
Const(u) == Mono(0, u)
X == Mono(1, LNum(ROne))
Sym(s) == Const(LSym(s))
EAdd(e, g) == [i \in 0..MaxDeg |-> LAdd(e[i], g[i])]
EScale(q, e) == [i \in 0..MaxDeg |-> LScale(q, e[i])]
ENeg(e) == EScale(RInt(-1), e)

free_symbols(e) == {s \in Symbols : \E i \in 0..MaxDeg : e[i][s] # RZero}
DependsOnX(e) == \E i \in 1..MaxDeg : e[i] # LZero
Degree(e) == IF DependsOnX(e) THEN CHOOSE i \in 1..MaxDeg :
                   e[i] # LZero /\ \A j \in (i + 1)..MaxDeg : e[j] = LZero
             ELSE 0

\* sp.integrate(e, x): the antiderivative with no constant term.
integrate(e) == [i \in 0..MaxDeg |-> IF i = 0 THEN LZero
                                     ELSE LScale(<<1, i>>, e[i - 1])]

\* The derivative with respect to x; the script never differentiates, the
\* properties below do.
diff(e) == [i \in 0..MaxDeg |-> IF i = MaxDeg THEN LZero
                                ELSE LScale(RInt(i + 1), e[i + 1])]

\* e.subs(x, a)
RECURSIVE EvalFrom(_, _, _)
EvalFrom(e, a, i) == IF i > MaxDeg THEN LZero
                     ELSE LAdd(LScale(RPow(a, i), e[i]), EvalFrom(e, a, i + 1))
subs_x(e, a) == EvalFrom(e, a, 0)

\* e.subs(sol) for a solution mapping sol: a function from some of C1, C2
\* to linear forms that mention none of its own keys.
LSubs(u, sol) ==
  LET keep == [s \in Atoms |-> IF s \in DOMAIN sol THEN RZero ELSE u[s]]
      c1 == IF "C1" \in DOMAIN sol THEN LScale(u["C1"], sol["C1"]) ELSE LZero
      c2 == IF "C2" \in DOMAIN sol THEN LScale(u["C2"], sol["C2"]) ELSE LZero
  IN LAdd(keep, LAdd(c1, c2))
subs(e, sol) == [i \in 0..MaxDeg |-> LSubs(e[i], sol)]

(***************************************************************************)
(* Text: str.strip, str.split(","), float.                                 *)
(* The texts of the model are written over digits, ",", " ", "-", "+" and  *)
(* letters; float accepts an optionally signed run of digits with          *)
(* surrounding blanks and raises on anything else.                         *)
(***************************************************************************)
Digits == <<"0", "1", "2", "3", "4", "5", "6", "7", "8", "9">>
IsDigit(c) == \E i \in 1..Len(Digits) : Digits[i] = c
DigitVal(c) == (CHOOSE i \in 1..Len(Digits) : Digits[i] = c) - 1

RECURSIVE lstrip(_)
lstrip(s) == IF s # <<>> /\ Head(s) = " " THEN lstrip(Tail(s)) ELSE s
Reverse(s) == [i \in 1..Len(s) |-> s[Len(s) + 1 - i]]
strip(s) == Reverse(lstrip(Reverse(lstrip(s))))

RECURSIVE SplitAcc(_, _)
SplitAcc(s, cur) ==
  IF s = <<>> THEN <<cur>>
  ELSE IF Head(s) = "," THEN <<cur>> \o SplitAcc(Tail(s), <<>>)
  ELSE SplitAcc(Tail(s), Append(cur, Head(s)))
split(s) == SplitAcc(s, <<>>)

Unsigned(s) == LET t == strip(s)
               IN IF t # <<>> /\ Head(t) \in {"-", "+"} THEN Tail(t) ELSE t
float_ok(s) == LET u == Unsigned(s)
               IN u # <<>> /\ \A i \in 1..Len(u) : IsDigit(u[i])
RECURSIVE DigitsVal(_, _)
DigitsVal(s, acc) == IF s = <<>> THEN acc
                     ELSE DigitsVal(Tail(s), 10 * acc + DigitVal(Head(s)))
float(s) == LET t == strip(s)
                v == DigitsVal(Unsigned(s), 0)
            IN RInt(IF Head(t) = "-" THEN -v ELSE v)

\* a, b = map(float, text.split(",")): exactly two parts, each a float.
pair_ok(s) == LET p == split(s) IN Len(p) = 2 /\ float_ok(p[1]) /\ float_ok(p[2])
pair(s) == LET p == split(s) IN <<float(p[1]), float(p[2])>>

\* [float(v) for v in text.split(",")]
floats_ok(s) == LET p == split(s) IN \A i \in 1..Len(p) : float_ok(p[i])
floats(s) == LET p == split(s) IN [i \in 1..Len(p) |-> float(p[i])]

(***************************************************************************)
(* sp.sympify on the expression texts of the model.                        *)
(***************************************************************************)
T_empty == <<>>
T_blank == <<" ">>
T_2x == <<"2", "*", "x">>
T_C2 == <<"C", "2">>
T_negC1 == <<"-", "C", "1">>
T_0 == <<"0">>
T_x == <<"x">>
T_xC2 == <<"x", "+", "C", "2">>
T_x2p1 == <<"x", "*", "*", "2", "+", "1">>
T_xr == <<"x", "-", "S", "y", "m", "b", "o", "l", "(", "'", "r", "'", ",",
          "r", "e", "a", "l", "=", "T", "r", "u", "e", ")">>
T_bad == <<"1", "+">>

\* Symbols are equal when their names and assumptions are: the C1 and C2 a
\* user types are the C1 and C2 of sp.symbols("C1 C2").
sympify_ok(s) == s \in {T_2x, T_C2, T_negC1, T_0, T_x, T_xC2, T_x2p1, T_xr}
sympify(s) ==
  CASE s = T_2x -> EScale(RInt(2), X)
    [] s = T_C2 -> Sym("C2")
    [] s = T_negC1 -> ENeg(Sym("C1"))
    [] s = T_0 -> EZero
    [] s = T_x -> X
    [] s = T_xC2 -> EAdd(X, Sym("C2"))
    [] s = T_x2p1 -> EAdd(Mono(2, LNum(ROne)), Const(LNum(ROne)))
    [] s = T_xr -> EAdd(X, ENeg(Sym("r")))

(***************************************************************************)
(* sp.solve(equations, [C1, C2], dict=True) for equations linear in C1 and *)
(* C2.  An equation is the linear form that must vanish.                   *)
(***************************************************************************)
HasUnknown(q) == q["C1"] # RZero \/ q["C2"] # RZero
Rest(q) == [s \in Atoms |-> IF s \in {"C1", "C2"} THEN RZero ELSE q[s]]

\* One equation: the first unknown with a nonzero coefficient is expressed
\* by the rest.
SolveOne(q) ==
  IF q["C1"] # RZero
  THEN [s \in {"C1"} |->
          LScale(RDiv(RInt(-1), q["C1"]),
                 [t \in Atoms |-> IF t = "C1" THEN RZero ELSE q[t]])]
  ELSE [s \in {"C2"} |-> LScale(RDiv(RInt(-1), q["C2"]), Rest(q))]

SolveTwo(p, q) ==
  LET det == RSub(RMul(p["C1"], q["C2"]), RMul(q["C1"], p["C2"]))
  IN IF det # RZero
     THEN <<[s \in {"C1", "C2"} |->
               IF s = "C1"
               THEN LScale(RDiv(ROne, det),
                           LSub(LScale(p["C2"], Rest(q)), LScale(q["C2"], Rest(p))))
               ELSE LScale(RDiv(ROne, det),
                           LSub(LScale(q["C1"], Rest(p)), LScale(p["C1"], Rest(q))))]>>
     ELSE LET lam == IF p["C1"] # RZero THEN RDiv(q["C1"], p["C1"])
                     ELSE RDiv(q["C2"], p["C2"])
          IN IF LSub(Rest(q), LScale(lam, Rest(p))) = LZero
             THEN <<SolveOne(p)>>
             ELSE <<>>

\* Mutant of solve: an equation without unknowns is always dropped, also
\* when it is a nonzero number.
solve_DropContradictions(eqs) ==
  LET kept == SelectSeq(eqs, HasUnknown)
  IN IF Len(kept) = 0 THEN <<>>
     ELSE IF Len(kept) = 1 THEN <<SolveOne(kept[1])>>
     ELSE SolveTwo(kept[1], kept[2])

\* An equation without C1 and C2: a nonzero number makes the system
\* unsolvable, zero is dropped, and one that still holds another symbol is
\* ignored.  Nothing left to solve gives no solution.
Contradiction(q) == ~HasUnknown(q) /\ LIsNumber(q) /\ q # LZero
solve(eqs) ==
  LET kept == SelectSeq(eqs, HasUnknown)
  IN IF \E i \in 1..Len(eqs) : Contradiction(eqs[i]) THEN <<>>
     ELSE IF Len(kept) = 0 THEN <<>>
     ELSE IF Len(kept) = 1 THEN <<SolveOne(kept[1])>>
     ELSE SolveTwo(kept[1], kept[2])

(***************************************************************************)
(* sp.solve(e, x) for a polynomial of degree at most 2 in x, the roots as  *)
(* [re, im]: re a linear form, im a rational.  Degree 2 is solved for      *)
(* x^2 + q with q # 0 a rational square up to sign.                        *)
(***************************************************************************)
ISqrt(n) == CHOOSE m \in 0..n : m * m = n
RSqrt(q) == <<ISqrt(q[1]), ISqrt(q[2])>>

solve_x(e) ==
  LET n == Degree(e)
  IN CASE n = 0 -> <<>>
       [] n = 1 -> <<[re |-> LScale(RDiv(RInt(-1), e[1]["k"]), e[0]), im |-> RZero]>>
       [] n = 2 ->
            LET q == RDiv(e[0]["k"], e[2]["k"])
            IN IF q[1] > 0
               THEN <<[re |-> LZero, im |-> RNeg(RSqrt(q))],
                      [re |-> LZero, im |-> RSqrt(q)]>>
               ELSE <<[re |-> LNum(RNeg(RSqrt(RNeg(q)))), im |-> RZero],
                      [re |-> LNum(RSqrt(RNeg(q))), im |-> RZero]>>

\* v.is_real: True only when nothing non-real or of unknown reality occurs.
is_real(v) == v.im = RZero /\ LSyms(v.re) \subseteq {"r"}
\* float(v) raises on an expression that still holds a symbol.
float_expr_ok(v) == LIsNumber(v.re)

(***************************************************************************)
(* The pipeline.                                                           *)
(***************************************************************************)
VARIABLES
  derivative_str, second_derivative_str, ic_fx, ic_fpx, critical_points_str,
  pc,                 \* the section about to run, or done / stopped / crashed
  fprime, fdoubleprime, f_expr, fprime_expr,
  equations, constants,
  f_num, fp_num, fpp_num, x_vals,
  critical_points, inflection_points,
  errors, warnings,   \* st.error and st.warning messages, in order
  plots, vlines,      \* curves drawn, and the marker lists drawn
  shown,              \* expressions displayed by st.latex
  exc                 \* the unhandled exception, if any

inputs == <<derivative_str, second_derivative_str, ic_fx, ic_fpx, critical_points_str>>
vars == <<derivative_str, second_derivative_str, ic_fx, ic_fpx, critical_points_str,
          pc, fprime, fdoubleprime, f_expr, fprime_expr, equations, constants,
          f_num, fp_num, fpp_num, x_vals, critical_points, inflection_points,
          errors, warnings, plots, vlines, shown, exc>>

\* A variable the script has not assigned yet, and Python's None, are <<>>;
\* an assigned expression e is <<e>>.
None == <<>>

Digit(n) == <<Digits[n + 1]>>
ValidIcTexts == {Digit(p) \o <<",">> \o Digit(v) : p \in 0..MaxPt, v \in 0..MaxVal}
BadIcTexts == {<<"0">>, <<"1", ",", "z">>, <<"0", ",", "1", ",", "2">>}
FprimeTexts == {T_2x, T_C2, T_negC1, T_empty}
FdoubleprimeTexts == {T_empty, T_blank, T_0, T_x, T_xC2, T_x2p1, T_xr, T_bad}
\* f'(x) is parsed and then unused once f''(x) is given: with a non-blank
\* f''(x) the model keeps one well-formed and one malformed f'(x).
ExprInputs == {p \in FprimeTexts \X FdoubleprimeTexts :
                 strip(p[2]) # <<>> => p[1] \in {T_2x, T_empty}}
CriticalTexts == {<<>>, <<" ">>, <<"0", ",", "1">>, <<"a", "b", "c">>,
                  <<"1", ",", "z">>}

Init ==
  /\ \E p \in ExprInputs : derivative_str = p[1] /\ second_derivative_str = p[2]
  /\ ic_fx \in ValidIcTexts \cup BadIcTexts \cup {<<>>}
  /\ ic_fpx \in ValidIcTexts \cup BadIcTexts \cup {<<>>, <<" ">>}
  /\ critical_points_str \in CriticalTexts
  /\ pc = "parse"
  /\ fprime = None /\ fdoubleprime = None
  /\ f_expr = None /\ fprime_expr = None
  /\ equations = <<>> /\ constants = <<>>
  /\ f_num = None /\ fp_num = None /\ fpp_num = None /\ x_vals = None
  /\ critical_points = <<>> /\ inflection_points = <<>>
  /\ errors = <<>> /\ warnings = <<>>
  /\ plots = <<>> /\ vlines = <<>>
  /\ shown = <<>> /\ exc = None

\* Mutant of ParseResult: f''(x) is parsed before f'(x).
ParseResult_SecondFirst(ds, sds) ==
  IF strip(sds) # <<>> /\ ~sympify_ok(sds)
  THEN [err |-> <<"Invalid f''(x)">>, fp |-> None, fpp |-> None]
  ELSE IF ~sympify_ok(ds)
  THEN [err |-> <<"Invalid f'(x)">>, fp |-> None, fpp |-> None]
  ELSE [err |-> <<>>, fp |-> <<sympify(ds)>>,
        fpp |-> IF strip(sds) = <<>> THEN None ELSE <<sympify(sds)>>]

\* Lines 62-74.  What the parse section leaves: the error reported (or
\* none), f' and f''.
ParseResult(ds, sds) ==
  IF ~sympify_ok(ds)
  THEN [err |-> <<"Invalid f'(x)">>, fp |-> None, fpp |-> None]
  ELSE IF strip(sds) = <<>>
  THEN [err |-> <<>>, fp |-> <<sympify(ds)>>, fpp |-> None]
  ELSE IF ~sympify_ok(sds)
  THEN [err |-> <<"Invalid f''(x)">>, fp |-> <<sympify(ds)>>, fpp |-> None]
  ELSE [err |-> <<>>, fp |-> <<sympify(ds)>>, fpp |-> <<sympify(sds)>>]

Parse ==
  /\ pc = "parse"
  /\ LET r == ParseResult(derivative_str, second_derivative_str)
     IN /\ fprime' = r.fp
        /\ fdoubleprime' = r.fpp
        /\ errors' = errors \o r.err
        /\ pc' = IF r.err # <<>> THEN "stopped" ELSE "reconstruct"
  /\ UNCHANGED <<inputs, f_expr, fprime_expr, equations, constants, f_num, fp_num,
                 fpp_num, x_vals, critical_points, inflection_points, warnings,
                 plots, vlines, shown, exc>>

\* Lines 79-86: <<f_expr, fprime_expr>>.
Reconstructed(fp, fpp) ==
  IF fpp # None
  THEN LET fpe == EAdd(integrate(fpp[1]), Sym("C1"))
       IN <<EAdd(integrate(fpe), Sym("C2")), fpe>>
  ELSE <<EAdd(integrate(fp[1]), Sym("C1")), fp[1]>>

Reconstruct ==
  /\ pc = "reconstruct"
  /\ LET r == Reconstructed(fprime, fdoubleprime)
     IN f_expr' = <<r[1]>> /\ fprime_expr' = <<r[2]>>
  /\ pc' = "conditions"
  /\ UNCHANGED <<inputs, fprime, fdoubleprime, equations, constants, f_num, fp_num,
                 fpp_num, x_vals, critical_points, inflection_points, errors,
                 warnings, plots, vlines, shown, exc>>

\* Lines 91-106.  What the section leaves: the error reported (or none) and
\* the equations.
ConditionsResult(fe, fpe, icf, icp) ==
  IF ~pair_ok(icf)
  THEN [err |-> <<"Invalid f(a)=b input.">>, eqs |-> <<>>]
  ELSE LET ab == pair(icf)
           eq1 == LSub(subs_x(fe, ab[1]), LNum(ab[2]))
       IN IF strip(icp) = <<>>
          THEN [err |-> <<>>, eqs |-> <<eq1>>]
          ELSE IF ~pair_ok(icp)
          THEN [err |-> <<"Invalid f'(c)=d input.">>, eqs |-> <<eq1>>]
          ELSE LET cd == pair(icp)
               IN [err |-> <<>>,
                   eqs |-> <<eq1, LSub(subs_x(fpe, cd[1]), LNum(cd[2]))>>]

Conditions ==
  /\ pc = "conditions"
  /\ LET r == ConditionsResult(f_expr[1], fprime_expr[1], ic_fx, ic_fpx)
     IN /\ equations' = r.eqs
        /\ errors' = errors \o r.err
        /\ pc' = IF r.err # <<>> THEN "stopped" ELSE "solve"
  /\ UNCHANGED <<inputs, fprime, fdoubleprime, f_expr, fprime_expr, constants,
                 f_num, fp_num, fpp_num, x_vals, critical_points,
                 inflection_points, warnings, plots, vlines, shown, exc>>

\* Mutant of Substituted: the solution is substituted into f_expr only.
Substituted_OnlyF(fe, fpe, cs) ==
  IF cs # <<>> THEN <<subs(fe, cs[1]), fpe>> ELSE <<fe, fpe>>

\* Lines 109-111: <<f_expr, fprime_expr>> after the substitution.
Substituted(fe, fpe, cs) ==
  IF cs # <<>> THEN <<subs(fe, cs[1]), subs(fpe, cs[1])>> ELSE <<fe, fpe>>

Solve ==
  /\ pc = "solve"
  /\ constants' = solve(equations)
  /\ LET r == Substituted(f_expr[1], fprime_expr[1], constants')
     IN f_expr' = <<r[1]>> /\ fprime_expr' = <<r[2]>>
  /\ pc' = "lambdify"
  /\ UNCHANGED <<inputs, fprime, fdoubleprime, equations, f_num, fp_num, fpp_num,
                 x_vals, critical_points, inflection_points, errors, warnings,
                 plots, vlines, shown, exc>>

\* Lines 116-122.  sp.lambdify writes the function's source from the
\* expression and does not look at its free symbols; the callables keep the
\* expressions they were made from.
Lambdify ==
  /\ pc = "lambdify"
  /\ f_num' = f_expr
  /\ fp_num' = fprime_expr
  /\ fpp_num' = fdoubleprime
  /\ x_vals' = <<[lo |-> XMin, hi |-> XMax, n |-> GridSize]>>
  /\ pc' = "critical"
  /\ UNCHANGED <<inputs, fprime, fdoubleprime, f_expr, fprime_expr, equations,
                 constants, critical_points, inflection_points, errors, warnings,
                 plots, vlines, shown, exc>>

\* Mutant of CriticalResult: the items parsed before the first bad one are
\* kept.
CriticalResult_KeepPrefix(cps) ==
  IF strip(cps) = <<>> THEN [warn |-> <<>>, pts |-> <<>>]
  ELSE IF floats_ok(cps) THEN [warn |-> <<>>, pts |-> floats(cps)]
  ELSE LET p == split(cps)
           n == CHOOSE i \in 1..Len(p) :
                  ~float_ok(p[i]) /\ \A j \in 1..(i - 1) : float_ok(p[j])
       IN [warn |-> <<"Could not parse critical points.">>,
           pts |-> [i \in 1..(n - 1) |-> float(p[i])]]

\* Lines 127-132.
CriticalResult(cps) ==
  IF strip(cps) = <<>> THEN [warn |-> <<>>, pts |-> <<>>]
  ELSE IF floats_ok(cps) THEN [warn |-> <<>>, pts |-> floats(cps)]
  ELSE [warn |-> <<"Could not parse critical points.">>, pts |-> <<>>]

Critical ==
  /\ pc = "critical"
  /\ LET r == CriticalResult(critical_points_str)
     IN critical_points' = r.pts /\ warnings' = warnings \o r.warn
  /\ pc' = "inflection"
  /\ UNCHANGED <<inputs, fprime, fdoubleprime, f_expr, fprime_expr, equations,
                 constants, f_num, fp_num, fpp_num, x_vals, inflection_points,
                 errors, plots, vlines, shown, exc>>

\* Lines 134-140.  Line 137 assigns the roots to inflection_points; line 138
\* assigns the floats of the real ones only if every conversion succeeds.
\* A point is [float, re, im]: float says it was converted.  On the
\* polynomial inputs of the model sp.solve returns a list and does not raise.
InflectionResult(fpp) ==
  IF fpp = None THEN <<>>
  ELSE LET roots == solve_x(fpp[1])
           real == SelectSeq(roots, is_real)
       IN IF \A i \in 1..Len(real) : float_expr_ok(real[i])
          THEN [i \in 1..Len(real) |->
                  [float |-> TRUE, re |-> real[i].re, im |-> real[i].im]]
          ELSE [i \in 1..Len(roots) |->
                  [float |-> FALSE, re |-> roots[i].re, im |-> roots[i].im]]

Inflection ==
  /\ pc = "inflection"
  /\ inflection_points' = InflectionResult(fdoubleprime)
  /\ pc' = "plot"
  /\ UNCHANGED <<inputs, fprime, fdoubleprime, f_expr, fprime_expr, equations,
                 constants, f_num, fp_num, fpp_num, x_vals, critical_points,
                 errors, warnings, plots, vlines, shown, exc>>

\* Mutant of PlotCurve: a free symbol does not stop the evaluation.
PlotCurve_IgnoreSymbols(e) ==
  IF ~DependsOnX(e) /\ free_symbols(e) = {} THEN "ValueError" ELSE "ok"

\* Calling a lambdified expression on the grid and plotting the result: a
\* free symbol other than x is an undefined name in the generated function;
\* an expression without x evaluates to a scalar, which plot rejects against
\* the grid's GridSize points.
PlotCurve(e) ==
  IF free_symbols(e) # {} THEN "NameError"
  ELSE IF ~DependsOnX(e) THEN "ValueError"
  ELSE "ok"

\* Lines 145-175.
PlotResult(fn, fpn, fppn) ==
  LET curves == <<[name |-> "f", e |-> fn[1], line |-> 151],
                  [name |-> "f'", e |-> fpn[1], line |-> 155]>>
                \o (IF fppn # None
                    THEN <<[name |-> "f''", e |-> fppn[1], line |-> 160]>>
                    ELSE <<>>)
      bad == {i \in 1..Len(curves) : PlotCurve(curves[i].e) # "ok"}
  IN IF bad = {}
     THEN [drawn |-> [i \in 1..Len(curves) |-> curves[i].name], exc |-> None]
     ELSE LET i == CHOOSE j \in bad : \A m \in bad : j <= m
          IN [drawn |-> [m \in 1..(i - 1) |-> curves[m].name],
              exc |-> <<[type |-> PlotCurve(curves[i].e), line |-> curves[i].line]>>]

Plot ==
  /\ pc = "plot"
  /\ LET r == PlotResult(f_num, fp_num, fpp_num)
     IN /\ plots' = r.drawn
        /\ exc' = r.exc
        /\ vlines' = IF r.exc = None
                     THEN <<[cp |-> critical_points, ip |-> inflection_points]>>
                     ELSE vlines
        /\ pc' = IF r.exc = None THEN "display" ELSE "crashed"
  /\ UNCHANGED <<inputs, fprime, fdoubleprime, f_expr, fprime_expr, equations,
                 constants, f_num, fp_num, fpp_num, x_vals, critical_points,
                 inflection_points, errors, warnings, shown>>

\* Lines 180-184.
Display ==
  /\ pc = "display"
  /\ shown' = f_expr \o fprime_expr \o fdoubleprime
  /\ pc' = "done"
  /\ UNCHANGED <<inputs, fprime, fdoubleprime, f_expr, fprime_expr, equations,
                 constants, f_num, fp_num, fpp_num, x_vals, critical_points,
                 inflection_points, errors, warnings, plots, vlines, exc>>

Next ==
  \/ Parse
  \/ Reconstruct
  \/ Conditions
  \/ Solve
  \/ Lambdify
  \/ Critical
  \/ Inflection
  \/ Plot
  \/ Display

Spec == Init /\ [][Next]_vars

(***************************************************************************)
(* Properties.                                                             *)
(***************************************************************************)
IntegrationConstants == {"C1", "C2"}
AfterSolve == {"lambdify", "critical", "inflection", "plot", "display", "done",
               "crashed"}
AfterCritical == {"inflection", "plot", "display", "done", "crashed"}
AfterInflection == {"plot", "display", "done", "crashed"}

\* The first input, in the order f', f'', f(a)=b, f'(c)=d, whose text is a
\* fatal parse condition.
FirstFault ==
  IF ~sympify_ok(derivative_str) THEN "fprime"
  ELSE IF strip(second_derivative_str) # <<>> /\ ~sympify_ok(second_derivative_str)
  THEN "fdoubleprime"
  ELSE IF ~pair_ok(ic_fx) THEN "ic_fx"
  ELSE IF strip(ic_fpx) # <<>> /\ ~pair_ok(ic_fpx) THEN "ic_fpx"
  ELSE "none"
FaultMessage(f) ==
  CASE f = "fprime" -> "Invalid f'(x)"
    [] f = "fdoubleprime" -> "Invalid f''(x)"
    [] f = "ic_fx" -> "Invalid f(a)=b input."
    [] f = "ic_fpx" -> "Invalid f'(c)=d input."

\* C1: when some input is a fatal parse condition, the run never gets past
\* the section that reads the first such input, no later section leaves
\* anything (no solution, no numeric callable, no grid, no warning, no plot,
\* no formula), and when it has stopped exactly one error is reported: the
\* one of the first failing input in the order f', f'', f(a)=b, f'(c)=d.
C1_FatalParseHalts ==
  FirstFault # "none" =>
    /\ pc \in {"parse", "reconstruct", "conditions", "stopped"}
    /\ FirstFault \in {"fprime", "fdoubleprime"} =>
         pc \in {"parse", "stopped"} /\ f_expr = None /\ fprime_expr = None
    /\ pc = "stopped" => errors = <<FaultMessage(FirstFault)>>
    /\ pc # "stopped" => errors = <<>>
    /\ constants = <<>> /\ f_num = None /\ fp_num = None /\ fpp_num = None
    /\ x_vals = None /\ warnings = <<>> /\ critical_points = <<>>
    /\ inflection_points = <<>> /\ plots = <<>> /\ vlines = <<>>
    /\ shown = <<>> /\ exc = None

\* Two inputs are malformed, f''(x) and f(a)=b, and the run has stopped.
C1_Witness ==
  /\ pc = "stopped"
  /\ sympify_ok(derivative_str)
  /\ strip(second_derivative_str) # <<>> /\ ~sympify_ok(second_derivative_str)
  /\ ~pair_ok(ic_fx)

\* C2 (as claimed): after the Reconstructor, with f'' absent fprime_expr is
\* the parsed f' and holds no integration constant, and f_expr is
\* integral(f') + C1 and holds C1 only; with f'' present fprime_expr is
\* integral(f'') + C1 and holds C1 only, and f_expr is
\* integral(fprime_expr) + C2 and holds exactly C1 and C2.
C2_OneConstantPerIntegration ==
  pc \in {"conditions", "solve"} =>
    IF fdoubleprime = None
    THEN /\ fprime_expr = fprime
         /\ f_expr[1] = EAdd(integrate(fprime[1]), Sym("C1"))
         /\ free_symbols(fprime_expr[1]) \cap IntegrationConstants = {}
         /\ free_symbols(f_expr[1]) \cap IntegrationConstants = {"C1"}
    ELSE /\ fprime_expr[1] = EAdd(integrate(fdoubleprime[1]), Sym("C1"))
         /\ f_expr[1] = EAdd(integrate(fprime_expr[1]), Sym("C2"))
         /\ free_symbols(fprime_expr[1]) \cap IntegrationConstants = {"C1"}
         /\ free_symbols(f_expr[1]) \cap IntegrationConstants = {"C1", "C2"}

\* C3: once the Condition Solver has run, either a solution was found and
\* both f_expr and fprime_expr are the Reconstructor's expressions with that
\* first solution substituted, or none was found and both are exactly the
\* Reconstructor's expressions.
C3_SubstitutionAtomic ==
  pc \in AfterSolve =>
    LET rec == Reconstructed(fprime, fdoubleprime)
    IN IF constants # <<>>
       THEN /\ f_expr[1] = subs(rec[1], constants[1])
            /\ fprime_expr[1] = subs(rec[2], constants[1])
       ELSE f_expr[1] = rec[1] /\ fprime_expr[1] = rec[2]

\* A solution was found and the substitution changed both expressions.
C3_Witness ==
  /\ pc = "done"
  /\ constants # <<>>
  /\ f_expr[1] # Reconstructed(fprime, fdoubleprime)[1]
  /\ fprime_expr[1] # Reconstructed(fprime, fdoubleprime)[2]

\* f''(x) is given with a well-formed f(a)=b and a blank f'(c)=d: one
\* equation for the two constants.
Underdetermined ==
  /\ fdoubleprime # None
  /\ pair_ok(ic_fx)
  /\ strip(ic_fpx) = <<>>

C5_FailsAtConversion ==
  (/\ pc \in AfterSolve
   /\ free_symbols(f_expr[1]) \cup free_symbols(fprime_expr[1]) # {}) =>
    /\ pc \in {"lambdify", "crashed"}
    /\ x_vals = None /\ warnings = <<>>
    /\ pc = "crashed" => exc[1].line \in 116..120

\* Some comma-separated item of a non-blank critical-point text is not a
\* number.
CriticalMalformed ==
  /\ strip(critical_points_str) # <<>>
  /\ \E i \in 1..Len(split(critical_points_str)) :
       ~float_ok(split(critical_points_str)[i])

C7_InflectionEmptyOrFloats ==
  pc \in AfterInflection =>
    /\ \A i \in 1..Len(inflection_points) : inflection_points[i].float
    /\ (fdoubleprime # None /\
        \E i \in 1..Len(solve_x(fdoubleprime[1])) :
           is_real(solve_x(fdoubleprime[1])[i]) /\
           ~float_expr_ok(solve_x(fdoubleprime[1])[i])) =>
         inflection_points = <<>>

\* C8 (as claimed): with f' only and f(a)=b, or with f'' and both
\* conditions, the finalized expressions hold none of the constants that
\* were introduced, f_expr at a is b, fprime_expr at c is d, and the
\* derivative of f_expr is fprime_expr; f'=2x, f(0)=0 gives x^2 and 2x, and
\* f''=0, f(0)=1, f'(0)=2 gives 2x+1.
C8_ConditionsDetermineConstants ==
  (pc \in AfterSolve /\ pair_ok(ic_fx)) =>
    /\ (fdoubleprime = None /\ strip(ic_fpx) = <<>>) =>
         /\ "C1" \notin free_symbols(f_expr[1]) \cup free_symbols(fprime_expr[1])
         /\ subs_x(f_expr[1], pair(ic_fx)[1]) = LNum(pair(ic_fx)[2])
         /\ diff(f_expr[1]) = fprime_expr[1]
    /\ (fdoubleprime # None /\ strip(ic_fpx) # <<>> /\ pair_ok(ic_fpx)) =>
         /\ (free_symbols(f_expr[1]) \cup free_symbols(fprime_expr[1]))
              \cap IntegrationConstants = {}
         /\ subs_x(f_expr[1], pair(ic_fx)[1]) = LNum(pair(ic_fx)[2])
         /\ subs_x(fprime_expr[1], pair(ic_fpx)[1]) = LNum(pair(ic_fpx)[2])
         /\ diff(f_expr[1]) = fprime_expr[1]
    /\ (derivative_str = T_2x /\ strip(second_derivative_str) = <<>>
        /\ ic_fx = <<"0", ",", "0">> /\ strip(ic_fpx) = <<>>) =>
         /\ f_expr[1] = Mono(2, LNum(ROne))
         /\ fprime_expr[1] = EScale(RInt(2), X)
    /\ (second_derivative_str = T_0 /\ ic_fx = <<"0", ",", "1">>
        /\ ic_fpx = <<"0", ",", "2">>) =>
         f_expr[1] = EAdd(EScale(RInt(2), X), Const(LNum(ROne)))

\* C9 (as claimed): the symbols of the parsed user expressions are none of
\* the integration constants, so none of them is an unknown the Condition
\* Solver solves for and substitutes.
C9_ConstantsFresh ==
  pc \in AfterSolve =>
    LET user == free_symbols(fprime[1]) \cup
                (IF fdoubleprime # None THEN free_symbols(fdoubleprime[1]) ELSE {})
    IN /\ constants # <<>> => DOMAIN constants[1] \cap user = {}
       /\ fdoubleprime = None => fprime_expr = fprime

\* First-derivative-only mode, f' in x alone, both conditions well-formed.
C10_Case ==
  /\ pc \in AfterSolve
  /\ fdoubleprime = None
  /\ free_symbols(fprime[1]) = {}
  /\ pair_ok(ic_fx)
  /\ strip(ic_fpx) # <<>> /\ pair_ok(ic_fpx)
FprimeMeetsCondition ==
  subs_x(fprime[1], pair(ic_fpx)[1]) = LNum(pair(ic_fpx)[2])

\* C10: in first-derivative-only mode with f' in x alone and both conditions
\* given, C1 is resolved from f(a)=b exactly when f' already satisfies
\* f'(c)=d; when it does not, no solution is found, f(a)=b is not applied
\* and f_expr is still integral(f') + C1.
C10_SecondConditionGatesFirst ==
  C10_Case =>
    /\ FprimeMeetsCondition =>
         /\ constants # <<>>
         /\ "C1" \notin free_symbols(f_expr[1])
         /\ subs_x(f_expr[1], pair(ic_fx)[1]) = LNum(pair(ic_fx)[2])
    /\ ~FprimeMeetsCondition =>
         /\ constants = <<>>
         /\ f_expr[1] = EAdd(integrate(fprime[1]), Sym("C1"))
         /\ "C1" \in free_symbols(f_expr[1])
    /\ fprime_expr = fprime

\* f' does not satisfy f'(c)=d, and the run ended with C1 unresolved.
C10_Witness ==
  C10_Case /\ ~FprimeMeetsCondition /\ pc = "crashed" /\ ic_fx = <<"0", ",", "0">>

====
